---- MODULE Spec2Model ----
(***************************************************************************)
(* Model of the IP / MAC validators of network-parameters-demo             *)
(* (utils/validators.ts, the version that exports the TEXT_* messages).    *)
(*                                                                         *)
(* A text is a sequence of one-character strings.  A regular expression of *)
(* the source is an operator R(s, P): the set of positions at which a      *)
(* match of R can end when it starts at one of the positions P of s (a     *)
(* position is the index of the next character to read, 1 .. Len(s)+1).    *)
(* An anchored test  new RegExp("^R$").test(s)  is  Len(s)+1 \in R(s,{1}). *)
(* JavaScript's backtracking matcher decides exactly this language.        *)
(***************************************************************************)
EXTENDS Integers, Sequences, FiniteSets, TLC

VARIABLES value, fn, result, ip, mac, submitted

vars == <<value, fn, result, ip, mac, submitted>>

(***************************************************************************)
(* Characters and the string methods of JavaScript the validators use.     *)
(***************************************************************************)

\* "1.2" as <<"1", ".", "2">>
Chars(str) == [i \in 1..Len(str) |-> SubSeq(str, i, i)]

\* \d
Digit == {"0", "1", "2", "3", "4", "5", "6", "7", "8", "9"}

\* [0-9a-fA-F]
HexDigit == Digit \cup {"a", "b", "c", "d", "e", "f", "A", "B", "C", "D", "E", "F"}

\* \s, and what String.prototype.trim removes
WhiteSpace == {" ", "\t", "\n"}

\* what "." of a regular expression does not match
LineTerminator == {"\n"}

\* the value of a decimal or hexadecimal digit
DigitValue(c) ==
  CASE c = "0" -> 0 [] c = "1" -> 1 [] c = "2" -> 2 [] c = "3" -> 3
    [] c = "4" -> 4 [] c = "5" -> 5 [] c = "6" -> 6 [] c = "7" -> 7
    [] c = "8" -> 8 [] c = "9" -> 9
    [] c \in {"a", "A"} -> 10 [] c \in {"b", "B"} -> 11
    [] c \in {"c", "C"} -> 12 [] c \in {"d", "D"} -> 13
    [] c \in {"e", "E"} -> 14 [] c \in {"f", "F"} -> 15

Min(S) == CHOOSE x \in S : \A y \in S : x <= y

\* s.trim()
trim(s) ==
  LET keep == {i \in 1..Len(s) : s[i] \notin WhiteSpace}
  IN  IF keep = {} THEN <<>>
      ELSE SubSeq(s, Min(keep), CHOOSE x \in keep : \A y \in keep : y <= x)

\* s.replace(/\s+$/, "")
trimEnd(s) ==
  LET keep == {i \in 1..Len(s) : s[i] \notin WhiteSpace}
  IN  IF keep = {} THEN <<>>
      ELSE SubSeq(s, 1, CHOOSE x \in keep : \A y \in keep : y <= x)

\* s.indexOf(sub) + 1, and 0 when sub does not occur in s
indexOf(s, sub) ==
  LET at == {i \in 1..(Len(s) - Len(sub) + 1) : SubSeq(s, i, i + Len(sub) - 1) = sub}
  IN  IF at = {} THEN 0 ELSE Min(at)

\* s.includes(sub)
includes(s, sub) == indexOf(s, sub) # 0

\* s.startsWith(sub)
startsWith(s, sub) == Len(s) >= Len(sub) /\ SubSeq(s, 1, Len(sub)) = sub

\* s.endsWith(sub)
endsWith(s, sub) ==
  Len(s) >= Len(sub) /\ SubSeq(s, Len(s) - Len(sub) + 1, Len(s)) = sub

\* s.split(sep), for a non-empty separator
RECURSIVE split(_, _)
split(s, sep) ==
  LET i == indexOf(s, sep)
  IN  IF i = 0 THEN <<s>>
      ELSE <<SubSeq(s, 1, i - 1)>> \o split(SubSeq(s, i + Len(sep), Len(s)), sep)

\* (s.match(/sub/g) || []).length: the matches found left to right, not overlapping
RECURSIVE countMatches(_, _)
countMatches(s, sub) ==
  LET i == indexOf(s, sub)
  IN  IF i = 0 THEN 0
      ELSE 1 + countMatches(SubSeq(s, i + Len(sub), Len(s)), sub)

\* Number.parseInt(s, radix) of a text of digits of that radix
RECURSIVE parseDigits(_, _)
parseDigits(s, radix) ==
  IF s = <<>> THEN 0
  ELSE parseDigits(SubSeq(s, 1, Len(s) - 1), radix) * radix + DigitValue(s[Len(s)])

\* Number.parseInt(s, 10): skips leading white space, reads the longest run of
\* decimal digits; NaN, written -1, when there is none (a text of the model
\* carries no sign, so no other result is negative)
parseInt10(s) ==
  LET t == trim(s)
      stop == {i \in 1..Len(t) : t[i] \notin Digit}
      run == IF stop = {} THEN t ELSE SubSeq(t, 1, Min(stop) - 1)
  IN  IF run = <<>> THEN -1 ELSE parseDigits(run, 10)

(***************************************************************************)
(* Building blocks of the regular expressions.                             *)
(***************************************************************************)

\* one character of the class C
Ch(s, P, C) == {p + 1 : p \in {q \in P : q <= Len(s) /\ s[q] \in C}}

\* between m and n characters of the class C:  [C]{m,n}
RECURSIVE ChRep(_, _, _, _, _)
ChRep(s, P, C, m, n) ==
  IF P = {} THEN {}
  ELSE IF m > 0 THEN ChRep(s, Ch(s, P, C), C, m - 1, n - 1)
  ELSE IF n = 0 THEN P
  ELSE P \cup ChRep(s, Ch(s, P, C), C, 0, n - 1)

\* \s*
WsStar(s, P) == ChRep(s, P, WhiteSpace, 0, Len(s))

(***************************************************************************)
(* IPv4                                                                    *)
(***************************************************************************)

\* (25[0-5]|2[0-4]\d|1\d{2}|[1-9]\d|\d)
OCTET(s, P) ==
  Ch(s, Ch(s, Ch(s, P, {"2"}), {"5"}), {"0", "1", "2", "3", "4", "5"})
    \cup Ch(s, Ch(s, Ch(s, P, {"2"}), {"0", "1", "2", "3", "4"}), Digit)
    \cup Ch(s, Ch(s, Ch(s, P, {"1"}), Digit), Digit)
    \cup Ch(s, Ch(s, P, Digit \ {"0"}), Digit)
    \cup Ch(s, P, Digit)

\* (\.OCTET)
DotOctet(s, P) == OCTET(s, Ch(s, P, {"."}))

\* OCTET(\.OCTET){3}
IPV4_FULL(s, P) == DotOctet(s, DotOctet(s, DotOctet(s, OCTET(s, P))))

\* IPV4_PARTIAL without the trailing ".":  OCTET(\.OCTET){0,3}
IPV4_PARTIAL_noTrailingDot(s, P) ==
  OCTET(s, P) \cup DotOctet(s, OCTET(s, P))
    \cup DotOctet(s, DotOctet(s, OCTET(s, P)))
    \cup DotOctet(s, DotOctet(s, DotOctet(s, OCTET(s, P))))

\* OCTET(\.OCTET){0,2}(\.OCTET?\.?)?
IPV4_PARTIAL(s, P) ==
  LET a == OCTET(s, P)
      a1 == DotOctet(s, a)
      b == a \cup a1 \cup DotOctet(s, a1)
      d == Ch(s, b, {"."})
      e == d \cup OCTET(s, d)
      f == e \cup Ch(s, e, {"."})
  IN  b \cup f

(***************************************************************************)
(* IPv6                                                                    *)
(***************************************************************************)

\* [0-9a-fA-F]{1,4}
H16(s, P) == ChRep(s, P, HexDigit, 1, 4)

\* (H16:){m,n}
RECURSIVE H16ColonRep(_, _, _, _)
H16ColonRep(s, P, m, n) ==
  IF P = {} THEN {}
  ELSE IF m > 0 THEN H16ColonRep(s, Ch(s, H16(s, P), {":"}), m - 1, n - 1)
  ELSE IF n = 0 THEN P
  ELSE P \cup H16ColonRep(s, Ch(s, H16(s, P), {":"}), 0, n - 1)

\* (:H16){m,n}
RECURSIVE ColonH16Rep(_, _, _, _)
ColonH16Rep(s, P, m, n) ==
  IF P = {} THEN {}
  ELSE IF m > 0 THEN ColonH16Rep(s, H16(s, Ch(s, P, {":"})), m - 1, n - 1)
  ELSE IF n = 0 THEN P
  ELSE P \cup ColonH16Rep(s, H16(s, Ch(s, P, {":"})), 0, n - 1)

\* the ten alternatives of IPV6_FULL
IPV6_FULL(s, P) ==
  H16(s, H16ColonRep(s, P, 7, 7))
    \cup Ch(s, H16ColonRep(s, P, 1, 7), {":"})
    \cup H16(s, Ch(s, H16ColonRep(s, P, 1, 6), {":"}))
    \cup ColonH16Rep(s, H16ColonRep(s, P, 1, 5), 1, 2)
    \cup ColonH16Rep(s, H16ColonRep(s, P, 1, 4), 1, 3)
    \cup ColonH16Rep(s, H16ColonRep(s, P, 1, 3), 1, 4)
    \cup ColonH16Rep(s, H16ColonRep(s, P, 1, 2), 1, 5)
    \cup ColonH16Rep(s, Ch(s, H16(s, P), {":"}), 1, 6)
    \cup ColonH16Rep(s, Ch(s, P, {":"}), 1, 7)
    \cup Ch(s, Ch(s, P, {":"}), {":"})

\* (?=.*:) : a colon follows on the same line, anywhere in the rest of the text
LookaheadColon(s, P) ==
  {p \in P : \E q \in p..Len(s) :
     s[q] = ":" /\ \A r \in p..(q - 1) : s[r] \notin LineTerminator}

\* (?=.*:)[0-9a-fA-F:]{1,39}
IPV6_PARTIAL(s, P) == ChRep(s, LookaheadColon(s, P), HexDigit \cup {":"}, 1, 39)

(***************************************************************************)
(* CIDR                                                                    *)
(***************************************************************************)

\* /(3\d|[12]\d|\d): CIDR_SUFFIX_V4 with the masks 33 to 39 let through
CIDR_SUFFIX_V4_upTo39(s, P) ==
  ChRep(s, Ch(s, P, {"/"}), Digit, 1, 1)
    \cup Ch(s, Ch(s, Ch(s, P, {"/"}), {"1", "2", "3"}), Digit)

\* /(3[0-2]|[12]\d|\d)
CIDR_SUFFIX_V4(s, P) ==
  LET q == Ch(s, P, {"/"})
  IN  Ch(s, Ch(s, q, {"3"}), {"0", "1", "2"})
        \cup Ch(s, Ch(s, q, {"1", "2"}), Digit)
        \cup Ch(s, q, Digit)

\* /(12[0-8]|1[01]\d|\d{1,2})
CIDR_SUFFIX_V6(s, P) ==
  LET q == Ch(s, P, {"/"})
  IN  Ch(s, Ch(s, Ch(s, q, {"1"}), {"2"}), Digit \ {"9"})
        \cup Ch(s, Ch(s, Ch(s, q, {"1"}), {"0", "1"}), Digit)
        \cup ChRep(s, q, Digit, 1, 2)

IPV4_CIDR_FULL(s, P) == CIDR_SUFFIX_V4(s, IPV4_FULL(s, P))

IPV6_CIDR_FULL(s, P) == CIDR_SUFFIX_V6(s, IPV6_FULL(s, P))

\* IPV4_PARTIAL(/[0-9]{0,2})?: the slash after any unfinished IPv4 address
IPV4_CIDR_PARTIAL_anyPrefix(s, P) ==
  IPV4_PARTIAL(s, P)
    \cup ChRep(s, Ch(s, IPV4_PARTIAL(s, P), {"/"}), Digit, 0, 2)

\* IPV4_FULL(/[0-9]{0,2})?
IPV4_CIDR_PARTIAL(s, P) ==
  LET a == IPV4_FULL(s, P)
  IN  a \cup ChRep(s, Ch(s, a, {"/"}), Digit, 0, 2)

\* IPV6_PARTIAL(/[0-9]{0,3})?
IPV6_CIDR_PARTIAL(s, P) ==
  LET a == IPV6_PARTIAL(s, P)
  IN  a \cup ChRep(s, Ch(s, a, {"/"}), Digit, 0, 3)

(***************************************************************************)
(* Ranges                                                                  *)
(***************************************************************************)

\* \s*-\s*
RangeDash(s, P) == WsStar(s, Ch(s, WsStar(s, P), {"-"}))

IPV4_RANGE_FULL(s, P) == IPV4_FULL(s, RangeDash(s, IPV4_FULL(s, P)))

IPV6_RANGE_FULL(s, P) == IPV6_FULL(s, RangeDash(s, IPV6_FULL(s, P)))

\* `${IPV4_PARTIAL}(\\s*-\\s*${IPV4_PARTIAL}?)?`: the "?" that follows the
\* interpolated pattern binds to its last group only, (\.OCTET?\.?)??, a lazy
\* quantifier that leaves the language as it is: the right side is not optional
IPV4_RANGE_PARTIAL(s, P) ==
  LET a == IPV4_PARTIAL(s, P)
  IN  a \cup IPV4_PARTIAL(s, RangeDash(s, a))

\* `${IPV6_PARTIAL}(\\s*-\\s*${IPV6_PARTIAL}?)?`: here the "?" makes {1,39}
\* lazy, {1,39}?, and again the right side is not optional
IPV6_RANGE_PARTIAL(s, P) ==
  LET a == IPV6_PARTIAL(s, P)
  IN  a \cup IPV6_PARTIAL(s, RangeDash(s, a))

(***************************************************************************)
(* Single items and comma-separated lists                                  *)
(***************************************************************************)

SINGLE_FULL(s, P) ==
  IPV4_CIDR_FULL(s, P) \cup IPV4_RANGE_FULL(s, P) \cup IPV4_FULL(s, P)
    \cup IPV6_CIDR_FULL(s, P) \cup IPV6_RANGE_FULL(s, P) \cup IPV6_FULL(s, P)

SINGLE_PARTIAL(s, P) ==
  IPV4_CIDR_PARTIAL(s, P) \cup IPV4_RANGE_PARTIAL(s, P)
    \cup IPV6_CIDR_PARTIAL(s, P) \cup IPV6_RANGE_PARTIAL(s, P)

\* \s*,\s*
ListComma(s, P) == WsStar(s, Ch(s, WsStar(s, P), {","}))

\* (\s*,\s*SINGLE_FULL)*
RECURSIVE FullListTail(_, _)
FullListTail(s, P) ==
  LET Q == P \cup SINGLE_FULL(s, ListComma(s, P))
  IN  IF Q = P THEN P ELSE FullListTail(s, Q)

\* (\s*,\s*SINGLE_PARTIAL)*
RECURSIVE PartialListTail(_, _)
PartialListTail(s, P) ==
  LET Q == P \cup SINGLE_PARTIAL(s, ListComma(s, P))
  IN  IF Q = P THEN P ELSE PartialListTail(s, Q)

\* FULL_LIST with the trailing comma of PARTIAL_LIST
FULL_LIST_trailingComma(s) ==
  (Len(s) + 1) \in
    WsStar(s, ListComma(s, FullListTail(s, SINGLE_FULL(s, WsStar(s, {1}))))
                \cup FullListTail(s, SINGLE_FULL(s, WsStar(s, {1}))))

\* ^\s*SINGLE_FULL(\s*,\s*SINGLE_FULL)*\s*$
FULL_LIST(s) ==
  (Len(s) + 1) \in WsStar(s, FullListTail(s, SINGLE_FULL(s, WsStar(s, {1}))))

\* PARTIAL_LIST without the trailing comma
PARTIAL_LIST_noTrailingComma(s) ==
  (Len(s) + 1) \in
    WsStar(s, PartialListTail(s, SINGLE_PARTIAL(s, WsStar(s, {1}))))

\* ^\s*SINGLE_PARTIAL(\s*,\s*SINGLE_PARTIAL)*(\s*,\s*)?\s*$
PARTIAL_LIST(s) ==
  LET a == PartialListTail(s, SINGLE_PARTIAL(s, WsStar(s, {1})))
  IN  (Len(s) + 1) \in WsStar(s, a \cup ListComma(s, a))

\* reIpFull.test(v)
reIpFull(v) == FULL_LIST(v)

\* reIpPartial.test(v)
reIpPartial(v) == PARTIAL_LIST(v)

(***************************************************************************)
(* Messages (the texts are kept as their kinds)                            *)
(***************************************************************************)

TEXT_INVALID_SUBNET == "InvalidSubnet"

TEXT_INVALID_IP == "InvalidIp"

TEXT_RANGE_ALLOWED == "RangeAllowed"

TEXT_RANGE_ORDER == "RangeOrder"

TEXT_IP_VERSION_MISMATCH == "VersionMismatch"

TEXT_ALLOWED_CHARS == "InvalidChars"

TEXT_INVALID_MAC == "InvalidMac"

\* the literal default message of isIpPartiallyValid
TEXT_INVALID_IP_FORMAT == "InvalidFormat"

\* the literal list message of isMacPartiallyValid
TEXT_INVALID_MAC_LIST == "InvalidMacList"

(***************************************************************************)
(* Tokens: the regex-based schemas over the patterns above                 *)
(***************************************************************************)

\* z.string().regex(new RegExp(`^${IPV4_FULL}$`))
isFullIpv4Token(v) == (Len(v) + 1) \in IPV4_FULL(v, {1})

\* z.string().regex(new RegExp(`^${IPV6_FULL}$`))
isFullIpv6Token(v) == (Len(v) + 1) \in IPV6_FULL(v, {1})

\* z.string().regex(new RegExp(`^${IPV4_CIDR_FULL}$`))
isValidCidrV4Token(v) == (Len(v) + 1) \in IPV4_CIDR_FULL(v, {1})

\* z.string().regex(new RegExp(`^${IPV6_CIDR_FULL}$`))
isValidCidrV6Token(v) == (Len(v) + 1) \in IPV6_CIDR_FULL(v, {1})

(***************************************************************************)
(* Numbers.  An address does not fit the integers of the model checker, so *)
(* a number is kept as the sequence of its digits, most significant first, *)
(* in base 256 (IPv4) or 65536 (IPv6):  (n * base) + d  and  (n << 16) | d *)
(* with d < base append the digit d.                                       *)
(***************************************************************************)

\* n without its leading zero digits
RECURSIVE stripZeros(_)
stripZeros(n) ==
  IF n # <<>> /\ n[1] = 0 THEN stripZeros(Tail(n)) ELSE n

\* a > b for two digit sequences of the same length
RECURSIVE digitsGreater(_, _)
digitsGreater(a, b) ==
  IF a = <<>> THEN FALSE
  ELSE IF a[1] # b[1] THEN a[1] > b[1]
  ELSE digitsGreater(Tail(a), Tail(b))

\* a > b
greater(a, b) ==
  LET x == stripZeros(a)
      y == stripZeros(b)
  IN  IF Len(x) # Len(y) THEN Len(x) > Len(y) ELSE digitsGreater(x, y)

\* ((p0 * 256 + p1) * 256 + p2) * 256 + p3
ipv4ToNumber(address) ==
  LET parts == split(address, <<".">>)
  IN  [i \in 1..4 |-> parseDigits(parts[i], 10)]

\* the groups joined by  result = (result << 16n) | value
groupsToBigInt(groups) ==
  [i \in 1..Len(groups) |->
     parseDigits(IF groups[i] = <<>> THEN <<"0">> ELSE groups[i], 16)]

\* ipv6ToBigInt that joins the groups as written, "::" not expanded
ipv6ToBigInt_noExpansion(address) == groupsToBigInt(split(address, <<":">>))

ipv6ToBigInt(address) ==
  IF ~includes(address, <<":", ":">>)
  THEN groupsToBigInt(split(address, <<":">>))
  ELSE LET halves == split(address, <<":", ":">>)
           leftRaw == halves[1]
           rightRaw == halves[2]
           leftParts == IF leftRaw # <<>> THEN split(leftRaw, <<":">>) ELSE <<>>
           rightParts == IF rightRaw # <<>> THEN split(rightRaw, <<":">>) ELSE <<>>
           missing == 8 - (Len(leftParts) + Len(rightParts))
           zeros == [i \in 1..(IF missing > 0 THEN missing ELSE 0) |-> <<"0">>]
       IN  groupsToBigInt(leftParts \o zeros \o rightParts)

(***************************************************************************)
(* Checks on the ranges of a list                                          *)
(***************************************************************************)

\* the elements of a sequence
Elems(seq) == {seq[i] : i \in 1..Len(seq)}

hasIpVersionMismatchInRange(v) ==
  \E item \in Elems(split(v, <<",">>)) :
    LET rangeParts == split(item, <<"-">>)
    IN  /\ Len(rangeParts) = 2
        /\ LET left == trim(rangeParts[1])
               right == trim(rangeParts[2])
           IN  /\ left # <<>>
               /\ right # <<>>
               /\ includes(left, <<":">>) # includes(right, <<":">>)

\* hasRangeOrderViolation comparing the IPv4 ranges only
hasRangeOrderViolation_ipv4Only(v) ==
  \E raw \in Elems(split(v, <<",">>)) :
    LET rangeParts == split(raw, <<"-">>)
    IN  /\ Len(rangeParts) = 2
        /\ isFullIpv4Token(trim(rangeParts[1]))
        /\ isFullIpv4Token(trim(rangeParts[2]))
        /\ greater(ipv4ToNumber(trim(rangeParts[1])),
                   ipv4ToNumber(trim(rangeParts[2])))

hasRangeOrderViolation(v) ==
  \E raw \in Elems(split(v, <<",">>)) :
    LET rangeParts == split(raw, <<"-">>)
    IN  /\ Len(rangeParts) = 2
        /\ LET left == trim(rangeParts[1])
               right == trim(rangeParts[2])
           IN  /\ left # <<>>
               /\ right # <<>>
               /\ \/ /\ isFullIpv4Token(left)
                     /\ isFullIpv4Token(right)
                     /\ greater(ipv4ToNumber(left), ipv4ToNumber(right))
                  \/ /\ isFullIpv6Token(left)
                     /\ isFullIpv6Token(right)
                     /\ greater(ipv6ToBigInt(left), ipv6ToBigInt(right))

\* hasTrailingDotAfterFullIpv4 that looks at whole items only, not at the
\* sides of a range
hasTrailingDotAfterFullIpv4_itemsOnly(v) ==
  \E item \in Elems(split(v, <<",">>)) :
    /\ trim(item) # <<>>
    /\ endsWith(trim(item), <<".">>)
    /\ isFullIpv4Token(trim(SubSeq(trim(item), 1, Len(trim(item)) - 1)))

hasTrailingDotAfterFullIpv4(v) ==
  \E item \in Elems(split(v, <<",">>)) :
    \E part \in Elems(split(item, <<"-">>)) :
      LET t == trim(part)
      IN  /\ t # <<>>
          /\ endsWith(t, <<".">>)
          /\ isFullIpv4Token(trim(SubSeq(t, 1, Len(t) - 1)))

(***************************************************************************)
(* isIpPartialAllowed: the guards, in the order of the source.  Every      *)
(* guard ends the function with false, so each is a predicate "rejects".   *)
(***************************************************************************)

\* the number of "." in t:  (t.match(/\./g) || []).length
dots(t) == Cardinality({i \in 1..Len(t) : t[i] = "."})

\* the first loop over the items: a range whose left side ends with ".", or
\* one complete IPv4 side against a side with one or two dots
rangeSideRejected(v) ==
  \E item \in Elems(split(v, <<",">>)) :
    LET dashIndex == indexOf(item, <<"-">>)
        left == trim(SubSeq(item, 1, dashIndex - 1))
        right == trim(SubSeq(item, dashIndex + 1, Len(item)))
        leftFull == isFullIpv4Token(left)
        rightFull == isFullIpv4Token(right)
    IN  /\ dashIndex # 0
        /\ \/ endsWith(left, <<".">>)
           \/ /\ left # <<>>
              /\ right # <<>>
              /\ \/ leftFull /\ ~rightFull /\ dots(right) > 0 /\ dots(right) < 3
                 \/ rightFull /\ ~leftFull /\ dots(left) > 0 /\ dots(left) < 3

\* bareTokenInList that starts at lists of three items
bareTokenInList_fromThree(v) ==
  /\ Len(split(v, <<",">>)) > 2
  /\ \E i \in 1..(Len(split(v, <<",">>)) - 1) :
       /\ trim(split(v, <<",">>)[i]) # <<>>
       /\ ~includes(split(v, <<",">>)[i], <<".">>)
       /\ ~includes(split(v, <<",">>)[i], <<":">>)
       /\ ~includes(split(v, <<",">>)[i], <<"/">>)
       /\ ~includes(split(v, <<",">>)[i], <<"-">>)

\* a list item before the last one that has none of  . : / -
bareTokenInList(v) ==
  LET items == split(v, <<",">>)
  IN  /\ Len(items) > 1
      /\ \E i \in 1..(Len(items) - 1) :
           LET token == trim(items[i])
           IN  /\ token # <<>>
               /\ ~includes(token, <<".">>)
               /\ ~includes(token, <<":">>)
               /\ ~includes(token, <<"/">>)
               /\ ~includes(token, <<"-">>)

\* ipv6TokenRejected without the check of the length of a group
ipv6TokenRejected_anyGroupLength(t) ==
  \/ split(t, <<":">>)[1] = <<>>
       /\ \E i \in 1..Len(split(t, <<":">>)) : split(t, <<":">>)[i] # <<>>
       /\ ~startsWith(t, <<":", ":">>)
  \/ split(t, <<":">>)[Len(split(t, <<":">>))] = <<>>
       /\ Cardinality({i \in 1..Len(split(t, <<":">>)) : split(t, <<":">>)[i] # <<>>}) > 1
       /\ ~endsWith(t, <<":", ":">>)
  \/ countMatches(t, <<":", ":">>) > 1
  \/ countMatches(t, <<":", ":">>) > 0
       /\ Cardinality({i \in 1..Len(split(t, <<":">>)) : split(t, <<":">>)[i] # <<>>}) >= 7
  \/ countMatches(t, <<":", ":">>) = 0
       /\ Cardinality({i \in 1..Len(split(t, <<":">>)) : split(t, <<":">>)[i] # <<>>})
            \in {7} \cup (9..40)

\* the checks on one token t that contains ":"
ipv6TokenRejected(t) ==
  LET groups == split(t, <<":">>)
      nonEmpty == Cardinality({i \in 1..Len(groups) : groups[i] # <<>>})
      matches == countMatches(t, <<":", ":">>)
  IN  \/ groups[1] = <<>> /\ nonEmpty >= 1 /\ ~startsWith(t, <<":", ":">>)
      \/ groups[Len(groups)] = <<>> /\ nonEmpty > 1 /\ ~endsWith(t, <<":", ":">>)
      \/ \E i \in 1..Len(groups) : Len(groups[i]) > 4
      \/ matches > 1
      \/ matches > 0 /\ nonEmpty >= 7
      \/ matches = 0 /\ (nonEmpty = 7 \/ nonEmpty > 8)

\* the loop over every token of every item, range side and CIDR part
ipv6StructureRejected(v) ==
  \E item \in Elems(split(v, <<",">>)) :
    \E rangePart \in Elems(split(item, <<"-">>)) :
      \E part \in Elems(split(rangePart, <<"/">>)) :
        LET t == trim(part)
        IN  t # <<>> /\ includes(t, <<":">>) /\ ipv6TokenRejected(t)

\* ipv4CidrMaskRejected with the bound off by one: 33 is let through
ipv4CidrMaskRejected_above33(v) ==
  \E item \in Elems(split(v, <<",">>)) :
    \E rangePart \in Elems(split(item, <<"-">>)) :
      LET cidrParts == split(rangePart, <<"/">>)
      IN  /\ Len(cidrParts) >= 2
          /\ trim(cidrParts[2]) # <<>>
          /\ isFullIpv4Token(trim(cidrParts[1]))
          /\ parseInt10(trim(cidrParts[2])) > 33

\* a complete IPv4 address with a mask above 32
ipv4CidrMaskRejected(v) ==
  \E item \in Elems(split(v, <<",">>)) :
    \E rangePart \in Elems(split(item, <<"-">>)) :
      LET cidrParts == split(rangePart, <<"/">>)
      IN  /\ Len(cidrParts) >= 2
          /\ LET ipPart == trim(cidrParts[1])
                 maskPart == trim(cidrParts[2])
                 mask == parseInt10(maskPart)
             IN  /\ maskPart # <<>>
                 /\ isFullIpv4Token(ipPart)
                 /\ mask >= 0
                 /\ mask > 32

\* ipv6CidrMaskRejected with the bound off by one: 129 is let through
ipv6CidrMaskRejected_above129(v) ==
  \E item \in Elems(split(v, <<",">>)) :
    \E rangePart \in Elems(split(item, <<"-">>)) :
      LET cidrParts == split(rangePart, <<"/">>)
      IN  /\ Len(cidrParts) >= 2
          /\ trim(cidrParts[2]) # <<>>
          /\ isFullIpv6Token(trim(cidrParts[1]))
          /\ parseInt10(trim(cidrParts[2])) > 129

\* a complete IPv6 address with a mask above 128
ipv6CidrMaskRejected(v) ==
  \E item \in Elems(split(v, <<",">>)) :
    \E rangePart \in Elems(split(item, <<"-">>)) :
      LET cidrParts == split(rangePart, <<"/">>)
      IN  /\ Len(cidrParts) >= 2
          /\ LET ipPart == trim(cidrParts[1])
                 maskPart == trim(cidrParts[2])
                 mask == parseInt10(maskPart)
             IN  /\ maskPart # <<>>
                 /\ isFullIpv6Token(ipPart)
                 /\ mask >= 0
                 /\ mask > 128

\* danglingDashAllowed that takes a prefix with a "-" of its own
danglingDashAllowed_anyPrefix(v) ==
  /\ endsWith(trimEnd(v), <<"-">>)
  /\ Len(trimEnd(v)) > 1
  /\ reIpPartial(SubSeq(trimEnd(v), 1, Len(trimEnd(v)) - 1))

\* the dangling dash: "192.168.1.1-"
danglingDashAllowed(v) ==
  LET noRightSpaces == trimEnd(v)
      prefix == SubSeq(noRightSpaces, 1, Len(noRightSpaces) - 1)
  IN  /\ endsWith(noRightSpaces, <<"-">>)
      /\ prefix # <<>>
      /\ ~includes(prefix, <<"-">>)
      /\ reIpPartial(prefix)

isIpPartialAllowed(v) ==
  IF trim(v) = <<>> THEN TRUE
  ELSE IF hasTrailingDotAfterFullIpv4(v) THEN FALSE
  ELSE IF rangeSideRejected(v) THEN FALSE
  ELSE IF bareTokenInList(v) THEN FALSE
  ELSE IF includes(v, <<":", ":", ":">>) THEN FALSE
  ELSE IF ipv6StructureRejected(v) THEN FALSE
  ELSE IF ipv4CidrMaskRejected(v) THEN FALSE
  ELSE IF ipv6CidrMaskRejected(v) THEN FALSE
  ELSE IF hasRangeOrderViolation(v) THEN FALSE
  ELSE IF hasIpVersionMismatchInRange(v) THEN FALSE
  ELSE IF reIpPartial(v) THEN TRUE
  ELSE danglingDashAllowed(v)

(***************************************************************************)
(* IpFullSchema: the message of the issue it adds, "" when it adds none    *)
(***************************************************************************)

\* the CIDR loop: a "/" part that is no valid CIDR token of its family
cidrTokenRejected(v) ==
  \E raw \in Elems(split(v, <<",">>)) :
    \E rangePart \in Elems(split(raw, <<"-">>)) :
      LET t == trim(rangePart)
      IN  /\ t # <<>>
          /\ includes(t, <<"/">>)
          /\ ~(IF includes(t, <<":">>) THEN isValidCidrV6Token(t)
                                       ELSE isValidCidrV4Token(t))

\* ipv6CompressionRejected with "::" let stand for no group at all: only
\* eight or more groups are refused
ipv6CompressionRejected_eightGroups(v) ==
  \E raw \in Elems(split(v, <<",">>)) :
    \E rangePart \in Elems(split(raw, <<"-">>)) :
      \E part \in Elems(split(rangePart, <<"/">>)) :
        LET t == trim(part)
            groups == split(t, <<":">>)
            nonEmpty == Cardinality({i \in 1..Len(groups) : groups[i] # <<>>})
            matches == countMatches(t, <<":", ":">>)
        IN  /\ t # <<>>
            /\ includes(t, <<":">>)
            /\ (matches > 1 \/ (matches > 0 /\ nonEmpty >= 8))

\* the IPv6 loop: more than one "::", or "::" with seven or more groups
ipv6CompressionRejected(v) ==
  \E raw \in Elems(split(v, <<",">>)) :
    \E rangePart \in Elems(split(raw, <<"-">>)) :
      \E part \in Elems(split(rangePart, <<"/">>)) :
        LET t == trim(part)
            groups == split(t, <<":">>)
            nonEmpty == Cardinality({i \in 1..Len(groups) : groups[i] # <<>>})
            matches == countMatches(t, <<":", ":">>)
        IN  /\ t # <<>>
            /\ includes(t, <<":">>)
            /\ (matches > 1 \/ (matches > 0 /\ nonEmpty >= 7))

IpFullSchema(v) ==
  LET val == trim(v)
  IN  IF val = <<>> THEN ""
      ELSE IF ~reIpFull(val) \/ includes(val, <<":", ":", ":">>) THEN TEXT_INVALID_IP
      ELSE IF cidrTokenRejected(val) THEN TEXT_INVALID_SUBNET
      ELSE IF ipv6CompressionRejected(val) THEN TEXT_INVALID_IP
      ELSE IF hasRangeOrderViolation(val) THEN TEXT_RANGE_ORDER
      ELSE IF hasIpVersionMismatchInRange(val) THEN TEXT_IP_VERSION_MISMATCH
      ELSE ""

(***************************************************************************)
(* Public API: IP                                                          *)
(***************************************************************************)

isIpValid(v) ==
  IF trim(v) = <<>> THEN TRUE ELSE IpFullSchema(v) = ""

\* /[^0-9a-fA-F:.,\s/-]/.test(v)
hasDisallowedIpChar(v) ==
  \E i \in 1..Len(v) :
    v[i] \notin (HexDigit \cup {":", ".", ",", "/", "-"} \cup WhiteSpace)

\* isIpPartiallyValid with the classification of the error run before the
\* acceptance checks
isIpPartiallyValid_classifyFirst(v) ==
  IF trim(v) = <<>> THEN ""
  ELSE IF hasIpVersionMismatchInRange(v) THEN TEXT_IP_VERSION_MISMATCH
  ELSE IF hasDisallowedIpChar(v) THEN TEXT_ALLOWED_CHARS
  ELSE IF hasRangeOrderViolation(v) THEN TEXT_RANGE_ORDER
  ELSE IF includes(v, <<"-">>) THEN TEXT_RANGE_ALLOWED
  ELSE IF includes(v, <<"/">>) THEN TEXT_INVALID_SUBNET
  ELSE IF isIpValid(v) \/ isIpPartialAllowed(v) THEN ""
  ELSE TEXT_INVALID_IP_FORMAT

\* isIpPartiallyValid looking for a disallowed character before the
\* version mismatch
isIpPartiallyValid_charsFirst(v) ==
  IF trim(v) = <<>> THEN ""
  ELSE IF isIpValid(v) THEN ""
  ELSE IF isIpPartialAllowed(v) THEN ""
  ELSE IF hasDisallowedIpChar(v) THEN TEXT_ALLOWED_CHARS
  ELSE IF hasIpVersionMismatchInRange(v) THEN TEXT_IP_VERSION_MISMATCH
  ELSE IF hasRangeOrderViolation(v) THEN TEXT_RANGE_ORDER
  ELSE IF includes(v, <<"-">>) THEN TEXT_RANGE_ALLOWED
  ELSE IF includes(v, <<"/">>) THEN TEXT_INVALID_SUBNET
  ELSE TEXT_INVALID_IP_FORMAT

isIpPartiallyValid(v) ==
  IF trim(v) = <<>> THEN ""
  ELSE IF isIpValid(v) THEN ""
  ELSE IF isIpPartialAllowed(v) THEN ""
  ELSE IF hasIpVersionMismatchInRange(v) THEN TEXT_IP_VERSION_MISMATCH
  ELSE IF hasDisallowedIpChar(v) THEN TEXT_ALLOWED_CHARS
  ELSE IF hasRangeOrderViolation(v) THEN TEXT_RANGE_ORDER
  ELSE IF includes(v, <<"-">>) THEN TEXT_RANGE_ALLOWED
  ELSE IF includes(v, <<"/">>) THEN TEXT_INVALID_SUBNET
  ELSE TEXT_INVALID_IP_FORMAT

(***************************************************************************)
(* MAC                                                                     *)
(***************************************************************************)

\* /^[0-9a-fA-F]{2}$/
HEX2_RE(p) == (Len(p) + 1) \in ChRep(p, {1}, HexDigit, 2, 2)

\* /^[0-9a-fA-F]{1,2}$/
HEX1_2_RE(p) == (Len(p) + 1) \in ChRep(p, {1}, HexDigit, 1, 2)

\* SingleMacFullSchema with groups of one or two hex digits
SingleMacFullSchema_shortGroups(token) ==
  /\ trim(token) # <<>>
  /\ Len(split(trim(token), <<"-">>)) = 6
  /\ \A i \in 1..6 : HEX1_2_RE(split(trim(token), <<"-">>)[i])

\* SingleMacFullSchema.safeParse(token).success
SingleMacFullSchema(token) ==
  LET t == trim(token)
      parts == split(t, <<"-">>)
  IN  /\ t # <<>>
      /\ Len(parts) = 6
      /\ \A i \in 1..Len(parts) : HEX2_RE(parts[i])

\* SingleMacPartialSchema that lets a seventh group through
SingleMacPartialSchema_sevenGroups(token) ==
  \/ trim(token) = <<>>
  \/ /\ Len(split(trim(token), <<"-">>)) <= 7
     /\ \A i \in 1..Len(split(trim(token), <<"-">>)) :
          IF split(trim(token), <<"-">>)[i] = <<>>
            THEN i = Len(split(trim(token), <<"-">>))
          ELSE IF i < Len(split(trim(token), <<"-">>))
            THEN HEX2_RE(split(trim(token), <<"-">>)[i])
          ELSE HEX1_2_RE(split(trim(token), <<"-">>)[i])

\* SingleMacPartialSchema that takes no empty last group ("AA-BB-")
SingleMacPartialSchema_noTrailingDash(token) ==
  \/ trim(token) = <<>>
  \/ /\ Len(split(trim(token), <<"-">>)) <= 6
     /\ \A i \in 1..Len(split(trim(token), <<"-">>)) :
          IF i < Len(split(trim(token), <<"-">>))
          THEN HEX2_RE(split(trim(token), <<"-">>)[i])
          ELSE HEX1_2_RE(split(trim(token), <<"-">>)[i])

\* SingleMacPartialSchema.safeParse(token).success
SingleMacPartialSchema(token) ==
  LET t == trim(token)
      parts == split(t, <<"-">>)
      lastIndex == Len(parts)
  IN  \/ t = <<>>
      \/ /\ Len(parts) <= 6
         /\ \A i \in 1..Len(parts) :
              IF parts[i] = <<>> THEN i = lastIndex
              ELSE IF i < lastIndex THEN HEX2_RE(parts[i])
              ELSE HEX1_2_RE(parts[i])

\* MacFullSchema.safeParse(v).success
MacFullSchema(v) ==
  \/ trim(v) = <<>>
  \/ \A raw \in Elems(split(v, <<",">>)) :
       LET token == trim(raw)
       IN  token # <<>> /\ SingleMacFullSchema(token)

\* the loop of isMacPartialAllowed from item i on
RECURSIVE macItemsAllowed(_, _)
macItemsAllowed(items, i) ==
  LET token == trim(items[i])
      lastIndex == Len(items)
  IN  IF i > lastIndex THEN TRUE
      ELSE IF i = lastIndex /\ token = <<>> THEN TRUE
      ELSE IF i < lastIndex
        THEN SingleMacFullSchema(token) /\ macItemsAllowed(items, i + 1)
        ELSE SingleMacPartialSchema(token) /\ macItemsAllowed(items, i + 1)

isMacPartialAllowed(v) ==
  IF trim(v) = <<>> THEN TRUE ELSE macItemsAllowed(split(v, <<",">>), 1)

\* isMacValid that asks every item to be a full MAC, the blank text included
isMacValid_itemsOnly(v) ==
  \A raw \in Elems(split(v, <<",">>)) :
    trim(raw) # <<>> /\ SingleMacFullSchema(trim(raw))

isMacValid(v) ==
  IF trim(v) = <<>> THEN TRUE ELSE MacFullSchema(v)

\* /[^0-9a-fA-F,\s-]/.test(v)
hasDisallowedMacChar(v) ==
  \E i \in 1..Len(v) : v[i] \notin (HexDigit \cup {",", "-"} \cup WhiteSpace)

\* isMacPartiallyValid that looks for a list before it looks at the characters
isMacPartiallyValid_listFirst(v) ==
  IF trim(v) = <<>> THEN ""
  ELSE IF isMacValid(v) THEN ""
  ELSE IF isMacPartialAllowed(v) THEN ""
  ELSE IF includes(v, <<",">>) THEN TEXT_INVALID_MAC_LIST
  ELSE IF hasDisallowedMacChar(v) THEN TEXT_ALLOWED_CHARS
  ELSE TEXT_INVALID_MAC

isMacPartiallyValid(v) ==
  IF trim(v) = <<>> THEN ""
  ELSE IF isMacValid(v) THEN ""
  ELSE IF isMacPartialAllowed(v) THEN ""
  ELSE IF hasDisallowedMacChar(v) THEN TEXT_ALLOWED_CHARS
  ELSE IF includes(v, <<",">>) THEN TEXT_INVALID_MAC_LIST
  ELSE TEXT_INVALID_MAC

(***************************************************************************)
(* The texts handed to the validators.  A text is one item, or a list of   *)
(* up to MaxItems items joined by ",".                                     *)
(***************************************************************************)

MaxItems == 2

Ipv4Complete ==
  {"1.2.3.4", "10.0.0.1", "192.168.1.2", "192.168.1.10", "255.255.255.255",
   "0.0.0.0"}

Ipv4Unfinished ==
  {"1", "12", "256", "1.", "1.2", "1.2.3", "1.2.3.", "1..", "1.2.3.4.",
   "256.0.0.1", "1.2.3.4.5", "01.2.3.4"}

Ipv6Complete ==
  {"::", "::1", "1::", "fe80::1", "2001:db8::1", "2001:db8::ff",
   "1:2:3:4:5:6:7:8", "0:0:0:0:0:0:0:1", "1:2:3:4:5::8"}

\* complete by the grammar, with "::" standing for a single group
Ipv6SevenGroups == {"1:2:3:4:5:6:7::", "::1:2:3:4:5:6:7", "1:2:3:4:5:6::8"}

Ipv6Unfinished ==
  {"2001", "2001:", "2001:db", "2001:db8:", "fe80", "f", "1:2:", ":1",
   "1:2:3:4:5:6:7", "1:2:3:4:5:6:7:8:9", "12345::1", "1::2::3",
   "2001:db8:::1", "::::"}

OtherTokens == {"abc", "zzz.zzz", "1.2.3.x", "-", "/", "/24"}

Tokens ==
  Ipv4Complete \cup Ipv4Unfinished \cup Ipv6Complete \cup Ipv6SevenGroups
    \cup Ipv6Unfinished \cup OtherTokens

Masks == {"", "0", "3", "05", "24", "32", "33", "99", "100", "128", "129", "999"}

CidrAddresses ==
  {"1.2.3.4", "10.0.0.1", "1.2.3", "1.2", "1.", "1", "::1", "2001:db8::",
   "fe80::", "2001:", "1:2:3:4:5:6:7::", "1:2:3:4:5:6:7:8"}

Cidrs == {a \o "/" \o m : a \in CidrAddresses, m \in Masks}

RangeSides ==
  {"", "1", "10.", "1.2.3", "1.2.3.4", "10.0.0.1", "192.168.1.2",
   "192.168.1.10", "::1", "0:0:0:0:0:0:0:1", "2001:db8::1", "2001:db8::ff",
   "2001:", "1:2:3:4:5:6:7::", "1:2:3:4:5:6:7:0", "zzz.zzz"}

Ranges ==
  {a \o "-" \o b : a \in RangeSides, b \in RangeSides}
    \cup {a \o " - " \o b : a \in {"1.2.3.4", "::1"}, b \in {"10.0.0.1", "1::", ""}}

OddItems ==
  {"1.2.3.4-10.0.0.1-", "10.0.0.1-1.2.3.4-", "1.2.3.4--10.0.0.1",
   "1.2.3.4/24-10.0.0.1", "1.2.3.4/24-", "1.2.3.4-10.0.0.1/24", "1.2.3/24-",
   "::1/64-", "1.2.3.4/33/1", "1.2.3.4/3 3", "1.2.3.4 /24", "1.2.3.4/ 24",
   "1.2.3.4/33-", "1.2.3 /24", " 1.2.3.4 ", "\t1.2.3.4\n", "ab\n::1",
   "1.2.3.4.-", "1.2.3.-1", " "}

Items == Tokens \cup Cidrs \cup Ranges \cup OddItems

\* texts with empty items
CommaTexts ==
  {",", ",,", " , ", "1.2.3.4,,", "1.2.3.4, ,", "1.2.3.4,,10.0.0.1",
   "1.2.3.4 , ", "::1,\t", "1.2.3.4,10.0.0.1,", "1.2.3.4,10.0.0.1,,",
   "1.2.3.4,1.2,", "1:2:3:4:5:6::8,"}

\* the items of the lists
ListItems ==
  {"1.2.3.4", " 10.0.0.1 ", "::1", "10.0.0.1/24", "1.2.3.4-10.0.0.1",
   "10.0.0.1-1.2.3.4", "1.2.3.4-::1", "", " ", "12", "-", "1:2:3:4:5:6:7::",
   "zzz.zzz", "1.2.3/24"}

RECURSIVE Lists(_)
Lists(n) ==
  IF n = 1 THEN ListItems
  ELSE {l \o "," \o i : l \in Lists(n - 1), i \in ListItems}

\* lists with a mask above the bound of its family
MaskTexts ==
  {"1.2.3.4/33,10.0.0.1", "10.0.0.1, ::1/129", "1.2.3.4/33,1.2.3.4-10.0.0.1",
   "::1/129,::1-1::", "1.2.3.4/33, 12", "1.2.3.4/33,", "1.2.3.4/33,zzz.zzz",
   "::1/999,1.2.3.4", "1.2.3.4/33,10.0.0.1-1.2.3.4", "::1/129,1.2.3.4-::1"}

\* lists of bare numbers
BareTexts ==
  {"12,22,22,22,22", "12,22,22", " 12 ,1.2.3.4,", "1.2.3.4,ab,::1",
   "1.2.3.4,12,10.0.0.1", "1,2"}

\* texts with an ill-formed IPv6 token
V6Texts ==
  {"2001:db8::1::1", "1::zz::3", "12345::g", "1:2:3:4:5:6:7:8:9:a",
   "1.2.3.4-12345::1", "12345::1-::1", "12345::1/64", "1:2:3:4:5:6:7/3",
   "1.2.3.4,1::2::3", "1::2::3,1.2.3.4", "::1,1:2:3:4:5:6:7", " 1::2::3 ",
   "::1-2001:db8:::1", "1:2:3:4:5:6:7:8:9/64", "abcde:1", "1:2:3:4:5:6:7::/64"}

\* nothing, or whitespace only
BlankTexts == {"", " ", "   ", "\t", "\n", " \t\n "}

\* texts with a "." after a complete IPv4 address
DotTexts ==
  {"1.2.3.4.,10.0.0.1", "10.0.0.1, 1.2.3.4. ", "1.2.3.4-10.0.0.1.",
   "10.0.0.1.-1.2.3.4", "::1,1.2.3.4.", " 1.2.3.4. ", "1.2.3.4 - 10.0.0.1. ",
   "1.2.3.4./24", "1.2.3.4 .", "1.2.3.4.-", "1.2.3.4,10.0.0.1-10.0.0.5."}

\* texts with an item of more than one "-"
DashTexts ==
  {"1.2.3.4-::1-", "::1-1::-", "1::-::1-", "::1-1.2.3.4-", "1.2.3.4--", "--",
   "1.2.3.4- -", "1-2-3", "1.2.3.4,10.0.0.1-10.0.0.5-", "1.2.3.4-10.0.0.1-,::1",
   "1.2.3.4-10.0.0.1 - ", "1.2.3.4-1.2.3.4-", "1.2.3.4-10.0.0.1-192.168.1.2",
   "1.2.3.4-10.0.0.1-1", "::1-::1-", "1.2-1.2-", "1.2.3.4,--"}

\* hex digits without a ":" before an item that holds one
BorrowTexts ==
  {"ab-cd,::1", "ab/24,::1", "ab/,::1", "ab - cd,1:2", "ab,::1", "f,::1",
   "ab-cd", "ab/24", "ab-cd,1.2.3.4", "ab-,::1", "::1,ab-cd", "ab-cd,1.2.3.4,::1"}

\* texts with an empty octet
DoubleDotTexts ==
  {"192..", "1.2.3..", "1.2..", "1..2", "1.2..3", "1.2.3..4", "1..,1.2.3.4",
   "1.2.3.4-1..", "1..-1.2.3.4", "1../24", "1...", "..", "1.2.3.4..", "1..-",
   "1.2.3.4,1..", "10.0.0.1-1.2.."}

\* lists of IPv4 addresses and IPv4 CIDRs, with whitespace around the commas
TypedTexts ==
  {"255.255.255.255/32", "1.2.3.4 , 10.0.0.1/8 ,192.168.1.10",
   "\t1.2.3.4/0 ,\n0.0.0.0", " 192.168.1.2/24,  10.0.0.1 ", "0.0.0.0/0,1.2.3.4/9",
   "10.0.0.1,10.0.0.1,10.0.0.1/32"}

IpTexts ==
  Items \cup CommaTexts \cup MaskTexts \cup BareTexts \cup V6Texts \cup BlankTexts
    \cup DotTexts \cup DashTexts \cup BorrowTexts \cup DoubleDotTexts
    \cup TypedTexts
    \cup UNION {Lists(n) : n \in 2..MaxItems}

MacItems ==
  {"AA-BB-CC-DD-EE-FF", " 11-22-33-44-55-66 ", "aa-bb-cc-dd-ee-f", "AA-BB",
   "AA-BB-", "A", "AAA", "AA--BB", "-AA", "AA-BB-CC-DD-EE-FF-",
   "AA-BB-CC-DD-EE-FF-11", "GG-11", "AA-BB-CC-DD-EE-ZZ", "", " "}

RECURSIVE MacLists(_)
MacLists(n) ==
  IF n = 1 THEN MacItems
  ELSE {l \o "," \o i : l \in MacLists(n - 1), i \in MacItems}

MacTexts == UNION {MacLists(n) : n \in 1..MaxItems}

Inputs == {Chars(t) : t \in IpTexts \cup MacTexts}

(***************************************************************************)
(* The validators as a state machine: a text is handed to one of the four  *)
(* entry points, which returns its result.                                 *)
(***************************************************************************)

\* the error of a field that has none
null == "null"

\* the state of a field before any event
INIT == [value |-> <<>>, touched |-> FALSE, error |-> null]

Init ==
  /\ value \in Inputs
  /\ fn = "none"
  /\ result = "none"
  /\ ip = INIT
  /\ mac = INIT
  /\ submitted = FALSE

CallIsIpValid ==
  /\ fn = "none"
  /\ fn' = "isIpValid"
  /\ result' = isIpValid(value)
  /\ UNCHANGED <<value, ip, mac, submitted>>

CallIsIpPartiallyValid ==
  /\ fn = "none"
  /\ fn' = "isIpPartiallyValid"
  /\ result' = isIpPartiallyValid(value)
  /\ UNCHANGED <<value, ip, mac, submitted>>

CallIsMacValid ==
  /\ fn = "none"
  /\ fn' = "isMacValid"
  /\ result' = isMacValid(value)
  /\ UNCHANGED <<value, ip, mac, submitted>>

CallIsMacPartiallyValid ==
  /\ fn = "none"
  /\ fn' = "isMacPartiallyValid"
  /\ result' = isMacPartiallyValid(value)
  /\ UNCHANGED <<value, ip, mac, submitted>>

Next ==
  \/ CallIsIpValid
  \/ CallIsIpPartiallyValid
  \/ CallIsMacValid
  \/ CallIsMacPartiallyValid

Spec == Init /\ [][Next]_vars

(***************************************************************************)
(* NetworkForm: the two fields and the submitted flag; one action per      *)
(* event handler.  The texts a user leaves in a field are drawn from       *)
(* IpFieldTexts and MacFieldTexts.                                         *)
(***************************************************************************)

IpFieldTexts ==
  {Chars(t) : t \in {"", "1.2.3.4", "1.2.3", "10.0.0.1-10.0.0.5", "1.2.3.4/33",
                     "2001:db8::1", "abc", "192.168.", "abc.def"}}

MacFieldTexts ==
  {Chars(t) : t \in {"", "AA-BB", "AA-BB-CC", "AA-BB-CC-DD-EE-FF",
                     "AA-BB-CC-DD-EE-FF,", "AA-BB-CC-DD-EE-FF,11-22-33-44-55-66",
                     "GG", " "}}

FormInit ==
  /\ ip = INIT
  /\ mac = INIT
  /\ submitted = FALSE
  /\ value = <<>>
  /\ fn = "none"
  /\ result = "none"

\* isIpPartiallyValid as the handlers call it, on the texts of the IP field
ipPartialErrors == [v \in IpFieldTexts |-> isIpPartiallyValid(v)]

handleIpChange(partialErrors) ==
  \E v \in IpFieldTexts :
    LET partialError == partialErrors[v]
    IN  /\ ip' = [ip EXCEPT !.value = v,
                             !.error = IF v # <<>> /\ partialError # ""
                                       THEN partialError ELSE null]
        /\ UNCHANGED <<mac, submitted, value, fn, result>>

handleIpBlur(partialErrors) ==
  LET partialError == partialErrors[ip.value]
  IN  /\ ip' = [ip EXCEPT !.touched = TRUE,
                           !.error = IF ip.value # <<>> /\ partialError # ""
                                     THEN partialError ELSE null]
      /\ UNCHANGED <<mac, submitted, value, fn, result>>

\* handleMacChange that keeps the error an earlier event left when the new
\* text is leniently valid
handleMacChange_keepsError ==
  \E v \in MacFieldTexts :
    /\ mac' = [mac EXCEPT !.value = v,
                           !.error = IF v # <<>> /\ isMacPartiallyValid(v) # ""
                                     THEN isMacPartiallyValid(v) ELSE mac.error]
    /\ UNCHANGED <<ip, submitted, value, fn, result>>

handleMacChange ==
  \E v \in MacFieldTexts :
    LET partialError == isMacPartiallyValid(v)
    IN  /\ mac' = [mac EXCEPT !.value = v,
                               !.error = IF v # <<>> /\ partialError # ""
                                         THEN partialError ELSE null]
        /\ UNCHANGED <<ip, submitted, value, fn, result>>

handleMacBlur ==
  LET partialError == isMacPartiallyValid(mac.value)
  IN  /\ mac' = [mac EXCEPT !.touched = TRUE,
                             !.error = IF mac.value = <<>> THEN null
                                       ELSE IF partialError # "" THEN partialError
                                       ELSE IF ~isMacValid(mac.value) THEN TEXT_INVALID_MAC
                                       ELSE null]
      /\ UNCHANGED <<ip, submitted, value, fn, result>>

handleSubmit(partialErrors) ==
  LET ipOk == partialErrors[ip.value] = ""
      macPartialOk == isMacPartiallyValid(mac.value) = ""
      macFullOk == mac.value = <<>> \/ isMacValid(mac.value)
      macOk == macPartialOk /\ macFullOk
  IN  /\ ip' = [ip EXCEPT !.touched = TRUE,
                           !.error = IF ip.value # <<>> /\ ~ipOk
                                     THEN TEXT_INVALID_IP ELSE null]
      /\ mac' = [mac EXCEPT !.touched = TRUE,
                             !.error = IF mac.value # <<>> /\ ~macOk
                                       THEN TEXT_INVALID_MAC ELSE null]
      /\ submitted' = (submitted \/ (ipOk /\ macOk))
      /\ UNCHANGED <<value, fn, result>>

\* the success banner is rendered
SuccessShown == submitted /\ ip.error = null /\ mac.error = null

\* the handlers share one evaluation of isIpPartiallyValid on the field texts
FormNext ==
  \E partialErrors \in {ipPartialErrors} :
    \/ handleIpChange(partialErrors)
    \/ handleIpBlur(partialErrors)
    \/ handleMacChange
    \/ handleMacBlur
    \/ handleSubmit(partialErrors)

FormSpec == FormInit /\ [][FormNext]_vars

(***************************************************************************)
(* The vocabulary of the properties: texts, items, complete addresses and  *)
(* their numeric values, stated apart from the validators.                 *)
(***************************************************************************)

\* only whitespace, or nothing at all
Blank(s) == \A i \in 1..Len(s) : s[i] \in WhiteSpace

\* s without the whitespace around it
Stripped(s) ==
  LET keep == {i \in 1..Len(s) : s[i] \notin WhiteSpace}
  IN  IF keep = {} THEN <<>>
      ELSE SubSeq(s, CHOOSE i \in keep : \A j \in keep : i <= j,
                     CHOOSE i \in keep : \A j \in keep : i >= j)

\* how many times the character c occurs in s
Count(s, c) == Cardinality({i \in 1..Len(s) : s[i] = c})

\* the pieces of s between the occurrences of the character c
Pieces(s, c) ==
  LET cuts == {0, Len(s) + 1} \cup {i \in 1..Len(s) : s[i] = c}
      after(i) == CHOOSE j \in cuts : j > i /\ \A k \in cuts : k > i => j <= k
      starts == {i \in cuts : i <= Len(s)}
      nth[n \in 1..Cardinality(starts)] ==
        IF n = 1 THEN 0 ELSE after(nth[n - 1])
  IN  [n \in 1..Cardinality(starts) |-> SubSeq(s, nth[n] + 1, after(nth[n]) - 1)]

\* the grammars IPv4Full and IPv6Full
CompleteV4(a) == (Len(a) + 1) \in IPV4_FULL(a, {1})

CompleteV6(a) == (Len(a) + 1) \in IPV6_FULL(a, {1})

SameFamilyComplete(a, b) ==
  (CompleteV4(a) /\ CompleteV4(b)) \/ (CompleteV6(a) /\ CompleteV6(b))

\* the non-empty groups of an IPv6 address
GroupCount(a) == Cardinality({i \in 1..Len(Pieces(a, ":")) : Pieces(a, ":")[i] # <<>>})

Compressed(a) == \E i \in 1..(Len(a) - 1) : a[i] = ":" /\ a[i + 1] = ":"

\* the value of a complete address, as its 4 octets or its 8 groups, most
\* significant first; "::" stands for the zero groups that are left out
Numeric(a) ==
  IF CompleteV4(a)
  THEN [i \in 1..4 |-> parseDigits(Pieces(a, ".")[i], 10)]
  ELSE LET at == IF Compressed(a)
                 THEN CHOOSE i \in 1..(Len(a) - 1) : a[i] = ":" /\ a[i + 1] = ":"
                 ELSE 0
           left == IF at = 0 THEN a ELSE SubSeq(a, 1, at - 1)
           right == IF at = 0 THEN <<>> ELSE SubSeq(a, at + 2, Len(a))
           lg == IF left = <<>> THEN <<>> ELSE Pieces(left, ":")
           rg == IF right = <<>> THEN <<>> ELSE Pieces(right, ":")
       IN  [i \in 1..8 |->
              IF i <= Len(lg) THEN parseDigits(lg[i], 16)
              ELSE IF i > 8 - Len(rg) THEN parseDigits(rg[i - (8 - Len(rg))], 16)
              ELSE 0]

\* x <= y for two values of the same family
NumericLeq(x, y) ==
  \/ x = y
  \/ \E k \in 1..Len(x) : x[k] < y[k] /\ \A j \in 1..(k - 1) : x[j] = y[j]

\* the text is one range item  a-b
IsRange(v) == Count(v, ",") = 0 /\ Count(v, "-") = 1 /\ Count(v, "/") = 0

RangeStart(v) == Stripped(Pieces(v, "-")[1])

RangeEnd(v) == Stripped(Pieces(v, "-")[2])

(***************************************************************************)
(* C1 .. C10                                                               *)
(***************************************************************************)

\* C1: monotonicity.  Every text the strict validator accepts is accepted
\* by the lenient validator, which returns the empty message; for the pair
\* isIpValid / isIpPartiallyValid and for the pair isMacValid /
\* isMacPartiallyValid.
C1_StrictImpliesLenient ==
  /\ ( (fn = "isIpPartiallyValid" /\ isIpValid(value)) => result = "" )
  /\ ( (fn = "isMacPartiallyValid" /\ isMacValid(value)) => result = "" )

\* a range, accepted by the strict validator, has been given to the lenient one
C1_Witness ==
  /\ fn = "isIpPartiallyValid"
  /\ IsRange(value)
  /\ isIpValid(value)
  /\ result = ""

C3_RangeOrder ==
  (fn = "isIpValid" /\ IsRange(value)) =>
    LET a == RangeStart(value)
        b == RangeEnd(value)
    IN  /\ ( result = TRUE =>
                ( /\ SameFamilyComplete(a, b)
                  /\ NumericLeq(Numeric(a), Numeric(b)) ) )
        /\ ( ( /\ SameFamilyComplete(a, b)
               /\ Numeric(a) = Numeric(b)
               /\ isIpValid(a)
               /\ isIpValid(b) ) => result = TRUE )

\* two notations of one IPv6 address make an accepted range
C3_Witness ==
  /\ fn = "isIpValid"
  /\ IsRange(value)
  /\ CompleteV6(RangeStart(value))
  /\ CompleteV6(RangeEnd(value))
  /\ RangeStart(value) # RangeEnd(value)
  /\ Numeric(RangeStart(value)) = Numeric(RangeEnd(value))
  /\ result = TRUE

\* C3, as the specification states it: every range of two equal complete
\* endpoints is accepted.
C3_EqualEndpointsAccepted ==
  ( /\ fn = "isIpValid"
    /\ IsRange(value)
    /\ SameFamilyComplete(RangeStart(value), RangeEnd(value))
    /\ Numeric(RangeStart(value)) = Numeric(RangeEnd(value)) ) => result = TRUE

\* the text is one CIDR item  A/m
IsCidr(v) == Count(v, ",") = 0 /\ Count(v, "-") = 0 /\ Count(v, "/") = 1

CidrAddress(v) == Stripped(Pieces(v, "/")[1])

CidrMask(v) == Stripped(Pieces(v, "/")[2])

\* a non-empty decimal number
IsDecimal(m) == m # <<>> /\ \A i \in 1..Len(m) : m[i] \in Digit

\* C4: a CIDR item A/m is accepted by the strict validator only if A is a
\* complete address and m is a non-empty decimal number, at most 32 when A
\* is IPv4 and at most 128 when A is IPv6; an empty mask or an incomplete
\* address is rejected.
C4_StrictCidr ==
  (fn = "isIpValid" /\ IsCidr(value) /\ result = TRUE) =>
    LET A == CidrAddress(value)
        m == CidrMask(value)
    IN  /\ CompleteV4(A) \/ CompleteV6(A)
        /\ IsDecimal(m)
        /\ CompleteV4(A) => parseDigits(m, 10) <= 32
        /\ CompleteV6(A) => parseDigits(m, 10) <= 128

\* the strict validator has accepted an IPv6 address with the mask 128
C4_Witness ==
  /\ fn = "isIpValid"
  /\ IsCidr(value)
  /\ CompleteV6(CidrAddress(value))
  /\ IsDecimal(CidrMask(value))
  /\ parseDigits(CidrMask(value), 10) = 128
  /\ result = TRUE

\* the text is one address: no comma, dash or slash, and not blank
IsSingle(v) ==
  Count(v, ",") = 0 /\ Count(v, "-") = 0 /\ Count(v, "/") = 0 /\ ~Blank(v)

\* C5: a single-address text is accepted by the strict validator if and
\* only if it matches IPv4Full, or it matches IPv6Full and, when it holds a
\* "::", has at most six non-empty groups.
C5_StrictSingle ==
  (fn = "isIpValid" /\ IsSingle(value)) =>
    LET a == Stripped(value)
    IN  result = ( \/ CompleteV4(a)
                   \/ CompleteV6(a) /\ (Compressed(a) => GroupCount(a) <= 6) )

\* the strict validator has refused seven groups around a "::"
C5_Witness ==
  /\ fn = "isIpValid"
  /\ IsSingle(value)
  /\ CompleteV6(Stripped(value))
  /\ Compressed(Stripped(value))
  /\ GroupCount(Stripped(value)) = 7
  /\ result = FALSE

\* C5, as the specification states it: accepted if and only if the text
\* matches IPv4Full or IPv6Full, seven groups before or after "::" included.
C5_GrammarOnly ==
  (fn = "isIpValid" /\ IsSingle(value)) =>
    result = (CompleteV4(Stripped(value)) \/ CompleteV6(Stripped(value)))

\* the items put together again, in the order given by perm
Joined(items, perm) ==
  LET n == Len(items)
      join[k \in 1..n] ==
        IF k = 1 THEN items[perm[1]] ELSE join[k - 1] \o <<",">> \o items[perm[k]]
  IN  join[n]

\* every order of n items
Orders(n) == {p \in [1..n -> 1..n] : \A i, j \in 1..n : p[i] = p[j] => i = j}

\* C6: a text that is not blank is accepted by the strict validator if and
\* only if none of its items is empty and every item, taken alone, is
\* accepted; and the items in any other order have the same verdict.
C6_ListIndependent ==
  (fn = "isIpValid" /\ ~Blank(value)) =>
    LET items == Pieces(value, ",")
    IN  /\ result = (\A i \in 1..Len(items) : ~Blank(items[i]) /\ isIpValid(items[i]))
        /\ \A p \in Orders(Len(items)) : isIpValid(Joined(items, p)) = result

\* a list with a trailing comma after an accepted item has been refused
C6_Witness ==
  /\ fn = "isIpValid"
  /\ Len(Pieces(value, ",")) = 2
  /\ ~Blank(Pieces(value, ",")[1])
  /\ isIpValid(Pieces(value, ",")[1])
  /\ Pieces(value, ",")[2] = <<>>
  /\ result = FALSE

\* C7: a complete address that the strict validator accepts, followed by
\* one trailing comma and then whitespace or nothing, is accepted by the
\* lenient validator; a text with an empty item that is not its last item
\* is rejected.
C7_TrailingComma ==
  fn = "isIpPartiallyValid" =>
    LET items == Pieces(value, ",")
        n == Len(items)
    IN  /\ ( ( /\ n = 2
               /\ Blank(items[2])
               /\ CompleteV4(Stripped(items[1])) \/ CompleteV6(Stripped(items[1]))
               /\ isIpValid(Stripped(items[1])) ) => result = "" )
        /\ ( (n >= 2 /\ \E i \in 1..(n - 1) : Blank(items[i])) => result # "" )

\* the lenient validator has refused two commas in a row after an address
C7_Witness ==
  /\ fn = "isIpPartiallyValid"
  /\ Len(Pieces(value, ",")) = 3
  /\ CompleteV4(Pieces(value, ",")[1])
  /\ Pieces(value, ",")[2] = <<>>
  /\ Pieces(value, ",")[3] = <<>>
  /\ result # ""

\* C7, as the specification states it: every complete address followed by a
\* single trailing comma is accepted.
C7_EveryCompleteAddress ==
  ( /\ fn = "isIpPartiallyValid"
    /\ Len(Pieces(value, ",")) = 2
    /\ Blank(Pieces(value, ",")[2])
    /\ \/ CompleteV4(Stripped(Pieces(value, ",")[1]))
       \/ CompleteV6(Stripped(Pieces(value, ",")[1])) ) => result = ""

\* C8: for a complete IPv4 address A and a mask m of one or two digits the
\* lenient validator accepts A/m if and only if m <= 32; for a complete IPv6
\* address A that the strict validator accepts and a mask m of one to three
\* digits it accepts A/m if and only if m <= 128.
C8_LenientMask ==
  (fn = "isIpPartiallyValid" /\ IsCidr(value)) =>
    LET A == Pieces(value, "/")[1]
        m == Pieces(value, "/")[2]
    IN  /\ ( (CompleteV4(A) /\ IsDecimal(m) /\ Len(m) <= 2) =>
               ((result = "") <=> parseDigits(m, 10) <= 32) )
        /\ ( (CompleteV6(A) /\ isIpValid(A) /\ IsDecimal(m) /\ Len(m) <= 3) =>
               ((result = "") <=> parseDigits(m, 10) <= 128) )

\* the lenient validator has refused the mask 129 after an IPv6 address
C8_Witness ==
  /\ fn = "isIpPartiallyValid"
  /\ IsCidr(value)
  /\ CompleteV6(Pieces(value, "/")[1])
  /\ isIpValid(Pieces(value, "/")[1])
  /\ IsDecimal(Pieces(value, "/")[2])
  /\ parseDigits(Pieces(value, "/")[2], 10) = 129
  /\ result # ""

\* C8, as the specification states it: every complete IPv6 address with a
\* mask of at most 128 is accepted.
C8_EveryCompleteV6 ==
  ( /\ fn = "isIpPartiallyValid"
    /\ IsCidr(value)
    /\ CompleteV6(Pieces(value, "/")[1])
    /\ IsDecimal(Pieces(value, "/")[2])
    /\ Len(Pieces(value, "/")[2]) <= 3
    /\ parseDigits(Pieces(value, "/")[2], 10) <= 128 ) => result = ""

\* the characters of an IP expression
IpAlphabet ==
  {"0", "1", "2", "3", "4", "5", "6", "7", "8", "9", "a", "b", "c", "d", "e",
   "f", "A", "B", "C", "D", "E", "F", ":", ".", ",", "/", "-"} \cup WhiteSpace

HasForeignChar(v) == \E i \in 1..Len(v) : v[i] \notin IpAlphabet

\* digits and dots with at least one dot, and no complete IPv4 address
UnfinishedDotted(a) ==
  /\ \A i \in 1..Len(a) : a[i] \in Digit \cup {"."}
  /\ Count(a, ".") >= 1
  /\ ~CompleteV4(a)

\* an item A/m with an unfinished dotted address A
HasUnfinishedCidr(v) ==
  \E i \in 1..Len(Pieces(v, ",")) :
    LET item == Pieces(v, ",")[i]
    IN  Count(item, "/") >= 1 /\ UnfinishedDotted(Stripped(Pieces(item, "/")[1]))

\* C9: a text with an item A/m, where A is digits and dots with at least
\* one dot and no complete IPv4 address, is rejected by the lenient
\* validator; the kind is InvalidSubnet when the text has no "-" and no
\* disallowed character.
C9_SlashAfterCompleteQuad ==
  (fn = "isIpPartiallyValid" /\ HasUnfinishedCidr(value)) =>
    /\ result # ""
    /\ (Count(value, "-") = 0 /\ ~HasForeignChar(value)) => result = TEXT_INVALID_SUBNET

\* the lenient validator has answered InvalidSubnet to three octets and a mask
C9_Witness ==
  /\ fn = "isIpPartiallyValid"
  /\ IsCidr(value)
  /\ UnfinishedDotted(Pieces(value, "/")[1])
  /\ Count(Pieces(value, "/")[1], ".") = 2
  /\ IsDecimal(Pieces(value, "/")[2])
  /\ result = TEXT_INVALID_SUBNET

\* a range item with two sides, exactly one of them holding a ":"
HasVersionMismatch(v) ==
  \E i \in 1..Len(Pieces(v, ",")) :
    LET item == Pieces(v, ",")[i]
    IN  /\ Count(item, "-") = 1
        /\ ~Blank(Pieces(item, "-")[1])
        /\ ~Blank(Pieces(item, "-")[2])
        /\ (Count(Pieces(item, "-")[1], ":") > 0) # (Count(Pieces(item, "-")[2], ":") > 0)

\* a range item of two complete addresses of one family, start above end
HasDescendingRange(v) ==
  \E i \in 1..Len(Pieces(v, ",")) :
    LET item == Pieces(v, ",")[i]
        a == Stripped(Pieces(item, "-")[1])
        b == Stripped(Pieces(item, "-")[2])
    IN  /\ Count(item, "-") = 1
        /\ SameFamilyComplete(a, b)
        /\ ~NumericLeq(Numeric(a), Numeric(b))

\* the first kind that applies, in the fixed order
FirstKind(v) ==
  IF HasVersionMismatch(v) THEN TEXT_IP_VERSION_MISMATCH
  ELSE IF HasForeignChar(v) THEN TEXT_ALLOWED_CHARS
  ELSE IF HasDescendingRange(v) THEN TEXT_RANGE_ORDER
  ELSE IF Count(v, "-") > 0 THEN TEXT_RANGE_ALLOWED
  ELSE IF Count(v, "/") > 0 THEN TEXT_INVALID_SUBNET
  ELSE TEXT_INVALID_IP_FORMAT

\* C10: for every text the lenient validator rejects, the kind it reports
\* is the first that applies in the order VersionMismatch, InvalidChars,
\* RangeOrder, the range-format message, InvalidSubnet, InvalidFormat.
C10_ErrorPriority ==
  (fn = "isIpPartiallyValid" /\ result # "") => result = FirstKind(value)

\* a text with a version mismatch and a disallowed character has been
\* reported as a version mismatch
C10_Witness ==
  /\ fn = "isIpPartiallyValid"
  /\ HasVersionMismatch(value)
  /\ HasForeignChar(value)
  /\ result = TEXT_IP_VERSION_MISMATCH

\* an item  A/m  with a complete address A and a decimal mask m above the
\* bound of the family of A
HasOversizeMask(v) ==
  \E i \in 1..Len(Pieces(v, ",")) :
    LET item == Pieces(v, ",")[i]
        A == Stripped(Pieces(item, "/")[1])
        m == Stripped(Pieces(item, "/")[2])
    IN  /\ Count(item, "/") = 1
        /\ IsDecimal(m)
        /\ \/ CompleteV4(A) /\ parseDigits(m, 10) > 32
           \/ CompleteV6(A) /\ parseDigits(m, 10) > 128

\* C11: a text with no disallowed character, no mixed-family range, no
\* out-of-order range and no "-" at all, one of whose items is a complete
\* address with a mask above the bound of its family, is rejected by the
\* lenient validator with the kind InvalidSubnet, alone and in a list.
C11_OversizeMaskKind ==
  ( /\ fn = "isIpPartiallyValid"
    /\ HasOversizeMask(value)
    /\ ~HasForeignChar(value)
    /\ ~HasVersionMismatch(value)
    /\ ~HasDescendingRange(value)
    /\ Count(value, "-") = 0 ) => result = TEXT_INVALID_SUBNET

\* a list of an IPv4 address and an IPv6 address with the mask 129 has been
\* reported as InvalidSubnet
C11_Witness ==
  /\ fn = "isIpPartiallyValid"
  /\ Len(Pieces(value, ",")) = 2
  /\ CompleteV4(Stripped(Pieces(value, ",")[1]))
  /\ HasOversizeMask(value)
  /\ Count(value, ":") > 0
  /\ result = TEXT_INVALID_SUBNET

\* C11, as the specification states it: the kind is InvalidSubnet also when
\* another item of the list is a well-formed range.
C11_AlsoBesideRange ==
  ( /\ fn = "isIpPartiallyValid"
    /\ HasOversizeMask(value)
    /\ ~HasForeignChar(value)
    /\ ~HasVersionMismatch(value)
    /\ ~HasDescendingRange(value) ) => result = TEXT_INVALID_SUBNET

\* digits and dots only
V4Shaped(t) == t # <<>> /\ \A i \in 1..Len(t) : t[i] \in Digit \cup {"."}

\* hex digits and colons, with a colon
V6Shaped(t) ==
  Count(t, ":") > 0 /\ \A i \in 1..Len(t) : t[i] \in HexDigit \cup {":"}

\* a range item with an IPv4-shaped side and an IPv6-shaped side
HasShapedMismatch(v) ==
  \E i \in 1..Len(Pieces(v, ",")) :
    LET item == Pieces(v, ",")[i]
        a == Stripped(Pieces(item, "-")[1])
        b == Stripped(Pieces(item, "-")[2])
    IN  /\ Count(item, "-") = 1
        /\ (V4Shaped(a) /\ V6Shaped(b)) \/ (V6Shaped(a) /\ V4Shaped(b))

\* C12, as the specification states it: the lenient validator reports
\* VersionMismatch exactly when an item is a range of an IPv4-shaped side and
\* an IPv6-shaped side, and never when a side is neither.
C12_MismatchOnlyForShapedSides ==
  fn = "isIpPartiallyValid" =>
    ((result = TEXT_IP_VERSION_MISMATCH) <=> HasShapedMismatch(value))

\* C13: a text with an item a-b of two complete addresses of one family
\* with numeric(a) > numeric(b) is rejected by the lenient validator; the
\* kind is RangeOrder when the text has no disallowed character and no
\* mixed-family range.
C13_LenientRangeOrder ==
  (fn = "isIpPartiallyValid" /\ HasDescendingRange(value)) =>
    /\ result # ""
    /\ (~HasForeignChar(value) /\ ~HasVersionMismatch(value)) =>
         result = TEXT_RANGE_ORDER

\* a descending IPv6 range, one end written with "::", has been reported
\* as RangeOrder
C13_Witness ==
  /\ fn = "isIpPartiallyValid"
  /\ IsRange(value)
  /\ CompleteV6(RangeStart(value))
  /\ Compressed(RangeStart(value))
  /\ ~Compressed(RangeEnd(value))
  /\ HasDescendingRange(value)
  /\ result = TEXT_RANGE_ORDER

\* an item that is not empty and holds none of  . : / -
BareItem(item) ==
  item # <<>> /\ \A i \in 1..Len(item) : item[i] \notin {".", ":", "/", "-"}

\* C14: a text of two or more items, one of which is not the last, is not
\* empty and holds none of the characters . : / - , is rejected by the
\* lenient validator.
C14_BareTokenInList ==
  ( /\ fn = "isIpPartiallyValid"
    /\ Len(Pieces(value, ",")) >= 2
    /\ \E i \in 1..(Len(Pieces(value, ",")) - 1) : BareItem(Pieces(value, ",")[i]) )
  => result # ""

\* a list of a bare number and a complete address has been rejected,
\* the number alone being acceptable
C14_Witness ==
  /\ fn = "isIpPartiallyValid"
  /\ Len(Pieces(value, ",")) = 2
  /\ BareItem(Pieces(value, ",")[1])
  /\ IsDecimal(Pieces(value, ",")[1])
  /\ isIpPartiallyValid(Pieces(value, ",")[1]) = ""
  /\ CompleteV4(Pieces(value, ",")[2])
  /\ result # ""

\* the leaf tokens of a text: the items, the sides of the ranges and the
\* addresses of the CIDRs
Leaves(v) ==
  {Stripped(Pieces(Pieces(Pieces(v, ",")[i], "-")[j], "/")[1]) :
     <<i, j>> \in {p \in (1..Len(v) + 1) \X (1..Len(v) + 1) :
                     /\ p[1] <= Len(Pieces(v, ","))
                     /\ p[2] <= Len(Pieces(Pieces(v, ",")[p[1]], "-"))}}

\* a token with a colon that breaks the structure of an IPv6 address
IllFormedV6(t) ==
  /\ Count(t, ":") > 0
  /\ \/ \E i \in 1..Len(Pieces(t, ":")) :
          /\ Len(Pieces(t, ":")[i]) > 4
          /\ \A k \in 1..Len(Pieces(t, ":")[i]) : Pieces(t, ":")[i][k] \in HexDigit
     \/ \E i, j \in 1..(Len(t) - 1) :
          j >= i + 2 /\ t[i] = ":" /\ t[i + 1] = ":" /\ t[j] = ":" /\ t[j + 1] = ":"
     \/ \E i \in 1..(Len(t) - 2) : t[i] = ":" /\ t[i + 1] = ":" /\ t[i + 2] = ":"
     \/ ~Compressed(t) /\ (GroupCount(t) = 7 \/ GroupCount(t) > 8)
     \/ Compressed(t) /\ GroupCount(t) >= 7

\* the text is one token
IsToken(v) == Count(v, ",") = 0 /\ Count(v, "-") = 0 /\ Count(v, "/") = 0

\* C15: a text with an ill-formed IPv6 leaf token (a group of more than
\* four hex digits, more than one "::", a ":::", seven or more than eight
\* groups without "::", seven or more groups with "::") is rejected by the
\* lenient validator; when the text is one such token and has no disallowed
\* character, the kind is InvalidFormat.
C15_Ipv6Structure ==
  (fn = "isIpPartiallyValid" /\ \E t \in Leaves(value) : IllFormedV6(t)) =>
    /\ result # ""
    /\ (IsToken(value) /\ ~HasForeignChar(value)) => result = TEXT_INVALID_IP_FORMAT

\* a token with two "::" has been reported as InvalidFormat
C15_Witness ==
  /\ fn = "isIpPartiallyValid"
  /\ IsToken(value)
  /\ V6Shaped(Stripped(value))
  /\ \E i, j \in 1..(Len(value) - 1) :
       /\ j >= i + 2
       /\ value[i] = ":" /\ value[i + 1] = ":"
       /\ value[j] = ":" /\ value[j + 1] = ":"
       /\ j + 1 < Len(value)
  /\ result = TEXT_INVALID_IP_FORMAT

\* C15, as the specification states it: the kind is InvalidFormat whenever
\* the whole text is one ill-formed token.
C15_AlwaysInvalidFormat ==
  (fn = "isIpPartiallyValid" /\ IsToken(value) /\ IllFormedV6(Stripped(value))) =>
    result = TEXT_INVALID_IP_FORMAT

\* C16: an empty or whitespace-only text is valid at the four entry points:
\* isIpValid and isMacValid return true, isIpPartiallyValid and
\* isMacPartiallyValid return the empty message.
C16_BlankIsValid ==
  Blank(value) =>
    /\ fn \in {"isIpValid", "isMacValid"} => result = TRUE
    /\ fn \in {"isIpPartiallyValid", "isMacPartiallyValid"} => result = ""

\* isMacValid has accepted a text of whitespace only
C16_Witness ==
  /\ fn = "isMacValid"
  /\ Len(value) > 1
  /\ Blank(value)
  /\ result = TRUE

\* six groups of two hex digits with "-" between them
FullMac(t) ==
  /\ Len(t) = 17
  /\ \A i \in 1..17 : IF i % 3 = 0 THEN t[i] = "-" ELSE t[i] \in HexDigit

\* C17: isMacValid accepts a text that is not empty or whitespace-only if
\* and only if every comma-separated item, without the whitespace around
\* it, is six groups of two hex digits separated by "-"; an empty item
\* makes the text invalid.
C17_StrictMac ==
  (fn = "isMacValid" /\ ~Blank(value)) =>
    result = (\A i \in 1..Len(Pieces(value, ",")) :
                FullMac(Stripped(Pieces(value, ",")[i])))

\* a full MAC followed by a trailing comma has been refused
C17_Witness ==
  /\ fn = "isMacValid"
  /\ Len(Pieces(value, ",")) = 2
  /\ FullMac(Stripped(Pieces(value, ",")[1]))
  /\ Pieces(value, ",")[2] = <<>>
  /\ result = FALSE

\* C17, as the specification states it: for every non-empty text, a text of
\* whitespace only included.
C17_EveryNonEmptyText ==
  (fn = "isMacValid" /\ value # <<>>) =>
    result = (\A i \in 1..Len(Pieces(value, ",")) :
                FullMac(Stripped(Pieces(value, ",")[i])))

\* one to six groups, each but the last of two hex digits, the last of
\* zero, one or two hex digits
UnfinishedMac(t) ==
  LET groups == Pieces(t, "-")
      n == Len(groups)
  IN  /\ n <= 6
      /\ \A i \in 1..(n - 1) :
           Len(groups[i]) = 2 /\ \A k \in 1..2 : groups[i][k] \in HexDigit
      /\ Len(groups[n]) <= 2
      /\ \A k \in 1..Len(groups[n]) : groups[n][k] \in HexDigit

\* C18: isMacPartiallyValid accepts a non-empty text if and only if every
\* item but the last is a full MAC and the last item is empty or has one to
\* six groups, each but the last of two hex digits and the last of zero,
\* one or two hex digits (items taken without the whitespace around them).
C18_LenientMac ==
  (fn = "isMacPartiallyValid" /\ value # <<>>) =>
    LET items == Pieces(value, ",")
        n == Len(items)
    IN  (result = "") <=>
          /\ \A i \in 1..(n - 1) : FullMac(Stripped(items[i]))
          /\ Blank(items[n]) \/ UnfinishedMac(Stripped(items[n]))

\* a full MAC followed by an item that ends in a dash has been accepted
C18_Witness ==
  /\ fn = "isMacPartiallyValid"
  /\ Len(Pieces(value, ",")) = 2
  /\ FullMac(Stripped(Pieces(value, ",")[1]))
  /\ Len(Pieces(value, ",")[2]) > 2
  /\ Pieces(value, ",")[2][Len(Pieces(value, ",")[2])] = "-"
  /\ result = ""

\* the characters of a MAC expression
MacAlphabet == IpAlphabet \ {":", ".", "/"}

HasForeignMacChar(v) == \E i \in 1..Len(v) : v[i] \notin MacAlphabet

\* C19: for every text with a character outside hex digits, "," , "-" and
\* whitespace, isMacPartiallyValid returns the kind InvalidChars, wherever
\* the character is and whatever the rest of the text is.
C19_MacInvalidChars ==
  (fn = "isMacPartiallyValid" /\ HasForeignMacChar(value)) =>
    result = TEXT_ALLOWED_CHARS

\* a list of a full MAC and an item with a letter that is no hex digit has
\* been reported as InvalidChars
C19_Witness ==
  /\ fn = "isMacPartiallyValid"
  /\ Len(Pieces(value, ",")) = 2
  /\ FullMac(Stripped(Pieces(value, ",")[1]))
  /\ HasForeignMacChar(Pieces(value, ",")[2])
  /\ result = TEXT_ALLOWED_CHARS

\* C20, as the specification states it: after any events of the form,
\* whenever the success banner is shown the MAC field is empty or holds a
\* text isMacValid accepts.
C20_SuccessImpliesMacValid ==
  SuccessShown => (mac.value = <<>> \/ isMacValid(mac.value))

(***************************************************************************)
(* C21 .. C30                                                              *)
(***************************************************************************)

\* C21, as the specification states it: a blur leaves the IP field without
\* an error only if its value is empty or accepted by isIpValid, and a submit
\* sets the submitted flag only if the IP value is empty or accepted by
\* isIpValid.
C21_IpStrictOnBlurAndSubmit ==
  [][ /\ (handleIpBlur(ipPartialErrors) /\ ip'.error = null)
           => (ip'.value = <<>> \/ isIpValid(ip'.value))
      /\ (handleSubmit(ipPartialErrors) /\ ~submitted /\ submitted')
           => (ip.value = <<>> \/ isIpValid(ip.value)) ]_vars

\* a complete IPv4 address immediately followed by "."
DottedQuad(t) ==
  /\ Len(t) > 1
  /\ t[Len(t)] = "."
  /\ CompleteV4(SubSeq(t, 1, Len(t) - 1))

\* some list item or range side is, after trimming, a dotted quad
HasDottedQuad(v) ==
  \E i \in 1..Len(Pieces(v, ",")) :
    \E j \in 1..Len(Pieces(Pieces(v, ",")[i], "-")) :
      DottedQuad(Stripped(Pieces(Pieces(v, ",")[i], "-")[j]))

\* C22: the lenient validator rejects every text in which some list item or
\* range side, after trimming, is a complete IPv4 address immediately
\* followed by "."; the grammar IPv4Partial alone matches such a token.
C22_TrailingDot ==
  (fn = "isIpPartiallyValid" /\ HasDottedQuad(value)) =>
    /\ result # ""
    /\ DottedQuad(value) => (Len(value) + 1) \in IPV4_PARTIAL(value, {1})

\* the lenient validator has rejected a range whose right side is a complete
\* IPv4 address followed by "."
C22_Witness ==
  /\ fn = "isIpPartiallyValid"
  /\ Count(value, ",") = 0
  /\ Count(value, "-") = 1
  /\ CompleteV4(RangeStart(value))
  /\ DottedQuad(RangeEnd(value))
  /\ result # ""

\* some list item holds more than one "-"
HasDoubleDash(v) ==
  \E i \in 1..Len(Pieces(v, ",")) : Count(Pieces(v, ",")[i], "-") > 1

\* the text is  a-b-  with complete addresses a and b
CompleteRangeAndDash(v) ==
  /\ Count(v, ",") = 0
  /\ Count(v, "-") = 2
  /\ Blank(Pieces(v, "-")[3])
  /\ LET a == Stripped(Pieces(v, "-")[1])
         b == Stripped(Pieces(v, "-")[2])
     IN  (CompleteV4(a) \/ CompleteV6(a)) /\ (CompleteV4(b) \/ CompleteV6(b))

\* C23: the lenient validator accepts no text in which a list item holds more
\* than one "-", and it answers a complete range followed by a second "-"
\* with the kind RangeAllowed.
C23_DoubleDash ==
  (fn = "isIpPartiallyValid" /\ HasDoubleDash(value)) =>
    /\ result # ""
    /\ CompleteRangeAndDash(value) => result = TEXT_RANGE_ALLOWED

\* the lenient validator has answered RangeAllowed to a complete IPv4 range
\* followed by a second "-"
C23_Witness ==
  /\ fn = "isIpPartiallyValid"
  /\ CompleteRangeAndDash(value)
  /\ CompleteV4(Stripped(Pieces(value, "-")[1]))
  /\ CompleteV4(Stripped(Pieces(value, "-")[2]))
  /\ result = TEXT_RANGE_ALLOWED

\* some list item holds a "/" followed later by a "-"
HasCidrRange(v) ==
  \E i \in 1..Len(Pieces(v, ",")) :
    LET item == Pieces(v, ",")[i]
    IN  \E j, k \in 1..Len(item) : j < k /\ item[j] = "/" /\ item[k] = "-"

\* C24, as the specification states it: neither validator accepts a text in
\* which a list item holds a "/" followed later by a "-", the dangling form
\* A/m- included.
C24_NoCidrRange ==
  /\ (fn = "isIpValid" /\ HasCidrRange(value)) => result = FALSE
  /\ (fn = "isIpPartiallyValid" /\ HasCidrRange(value)) => result # ""

\* some list item begins, after trimming, with "-"
HasEmptyLeftSide(v) ==
  \E i \in 1..Len(Pieces(v, ",")) :
    LET t == Stripped(Pieces(v, ",")[i])
    IN  t # <<>> /\ t[1] = "-"

\* C25, as the specification states it: the lenient validator never accepts
\* a text with a list item whose trimmed text begins with "-".
C25_NoEmptyLeftSide ==
  (fn = "isIpPartiallyValid" /\ HasEmptyLeftSide(value)) => result # ""

\* C26, as the specification states it: when the lenient validator accepts
\* a text of two or more items, it also accepts every item of the text taken
\* alone as the whole input; so an item accepted as partial IPv6 holds a ":"
\* of its own.
C26_LenientListIndependent ==
  (fn = "isIpPartiallyValid" /\ result = "" /\ Count(value, ",") >= 1) =>
    \A i \in 1..Len(Pieces(value, ",")) :
      isIpPartiallyValid(Pieces(value, ",")[i]) = ""

\* some leaf token of digits and dots holds two consecutive dots
HasDoubleDot(v) ==
  \E t \in Leaves(v) :
    V4Shaped(t) /\ \E k \in 1..(Len(t) - 1) : t[k] = "." /\ t[k + 1] = "."

\* C27, as the specification states it: the lenient validator rejects every
\* text in which a token of digits and dots holds two consecutive dots.
C27_NoEmptyOctet ==
  (fn = "isIpPartiallyValid" /\ HasDoubleDot(value)) => result # ""

\* C28: a step that changes the value of a field leaves that field with an
\* error exactly when the new value is not empty and the lenient validator
\* of the field rejects it, whatever error the field held before, and
\* leaves the other field and the submitted flag as they were.
C28_ChangeSetsErrorFromNewValue ==
  [][ /\ (ip'.value # ip.value) =>
           /\ (ip'.error # null) <=>
                (ip'.value # <<>> /\ isIpPartiallyValid(ip'.value) # "")
           /\ mac' = mac
           /\ submitted' = submitted
      /\ (mac'.value # mac.value) =>
           /\ (mac'.error # null) <=>
                (mac'.value # <<>> /\ isMacPartiallyValid(mac'.value) # "")
           /\ ip' = ip
           /\ submitted' = submitted ]_vars

\* the MAC field has been left, and a later change to an unfinished but
\* leniently valid text has left it without an error
C28_Witness ==
  /\ mac.touched
  /\ mac.value # <<>>
  /\ isMacPartiallyValid(mac.value) = ""
  /\ ~isMacValid(mac.value)
  /\ mac.error = null

\* the items of the text are IPv4 addresses and IPv4 CIDRs only
OnlyV4Items(v) ==
  /\ Count(v, "-") = 0
  /\ Count(v, ":") = 0
  /\ \A i \in 1..Len(Pieces(v, ",")) :
       CompleteV4(Stripped(Pieces(Pieces(v, ",")[i], "/")[1]))

\* C29: for every text the strict validator accepts whose items are IPv4
\* addresses and IPv4 CIDRs only, the lenient validator accepts every prefix
\* of the text, the empty one included.
C29_Ipv4PrefixesAccepted ==
  (fn = "isIpValid" /\ result = TRUE /\ OnlyV4Items(value)) =>
    \A k \in 0..Len(value) : isIpPartiallyValid(SubSeq(value, 1, k)) = ""

\* the strict validator has accepted a list of three items, an IPv4 CIDR
\* among them, with whitespace around a comma
C29_Witness ==
  /\ fn = "isIpValid"
  /\ result = TRUE
  /\ OnlyV4Items(value)
  /\ Count(value, ",") = 2
  /\ Count(value, "/") >= 1
  /\ \E k \in 1..(Len(value) - 1) : value[k] = " " /\ value[k + 1] = ","

\* C30: for every text the strict MAC validator accepts, the lenient MAC
\* validator accepts every prefix of the text, the empty one included.
C30_MacPrefixesAccepted ==
  (fn = "isMacValid" /\ result = TRUE) =>
    \A k \in 0..Len(value) : isMacPartiallyValid(SubSeq(value, 1, k)) = ""

\* the strict validator has accepted a list of two full MACs with
\* whitespace after the comma
C30_Witness ==
  /\ fn = "isMacValid"
  /\ result = TRUE
  /\ Len(Pieces(value, ",")) = 2
  /\ FullMac(Stripped(Pieces(value, ",")[1]))
  /\ FullMac(Stripped(Pieces(value, ",")[2]))
  /\ Pieces(value, ",")[2][1] = " "

====
